---- MODULE Spec2Model ----
(***************************************************************************)
(* Model of the constant-pool builder of asm-rs (src/src/constant_pool.rs). *)
(* The builder's fields are the record `builder`; every public method is    *)
(* an operator on that record, translated branch by branch, and one action  *)
(* per method applies it.  History variables record what each call was      *)
(* given and what it returned.                                              *)
(***************************************************************************)
EXTENDS Integers, Sequences, FiniteSets, TLC

VARIABLES
    pc,        \* "start" (no builder yet), "built", "consumed" (after into_pool)
    ctor,      \* the constructor that built the builder: "none", "new", "from_pool"
    pool,      \* the argument of from_pool (<<>> before construction and after new())
    builder,   \* the fields of ConstantPoolBuilder
    pushed,    \* history: every entry appended since construction, in order
    calls,     \* history: per method, the <<arguments, returned index>> of every call
    call,      \* history: the last top-level call (method, arguments, result, pool before)
    ncalls,    \* history: the number of top-level insertion calls made
    out,       \* the vector returned by into_pool
    at,        \* types.rs: "idle", "input" (a descriptor given), "typed", "aborted",
               \* and inside parse: "parse", "name", "arguments"
    input,     \* types.rs: the descriptor handed to get_type / get_method_type
    ty,        \* types.rs: the Type value obtained from the descriptor
    ret,       \* types.rs: the last call on Type and what it returned
    cursor,    \* types.rs: *pos, the cursor shared by the calls of parse
    frames,    \* types.rs: the calls of parse that have not returned, outermost first
    scanned    \* history: the position of every byte the cursor moved over, in order

bvars == <<pc, ctor, pool, builder, pushed, calls, call, ncalls, out>>
pvars == <<cursor, frames, scanned>>
tvars == <<at, input, ty, ret, cursor, frames, scanned>>
vars == <<pc, ctor, pool, builder, pushed, calls, call, ncalls, out,
          at, input, ty, ret, cursor, frames, scanned>>

----------------------------------------------------------------------------
(* Bounds of the exploration *)

\* every sequence of at most MaxCalls insertion calls is explored on a builder
\* made by new(), and of at most MaxAdoptedCalls on one made by from_pool
MaxCalls == 3
MaxAdoptedCalls == 1

\* u16: indices are truncated to 16 bits by `as u16`
IndexLimit == 65536

Strings == {"a", "b"}
Numbers == {5}
\* reference kinds on both sides of the two boundaries of the dispatch
Kinds == {4, 5, 9}
BsmIndices == {0, 1}
\* the (name, descriptor) and (owner, name, descriptor) arguments explored
Pairs == {<<"a", "a">>, <<"a", "b">>}
Triples == {<<"a", "a", "a">>, <<"b", "a", "b">>}
Handles == [reference_kind : Kinds, owner : {"a"}, name : {"a"},
            descriptor : {"a"}, is_interface : BOOLEAN]

----------------------------------------------------------------------------
(* CpInfo: one record per variant *)

Unusable == [tag |-> "Unusable"]
Utf8(s) == [tag |-> "Utf8", string |-> s]
Integer(v) == [tag |-> "Integer", number |-> v]
Float(v) == [tag |-> "Float", number |-> v]
Long(v) == [tag |-> "Long", number |-> v]
Double(v) == [tag |-> "Double", number |-> v]
Class(i) == [tag |-> "Class", name_index |-> i]
String(i) == [tag |-> "String", string_index |-> i]
Fieldref(c, n) == [tag |-> "Fieldref", class_index |-> c, name_and_type_index |-> n]
Methodref(c, n) == [tag |-> "Methodref", class_index |-> c, name_and_type_index |-> n]
InterfaceMethodref(c, n) ==
    [tag |-> "InterfaceMethodref", class_index |-> c, name_and_type_index |-> n]
NameAndType(n, d) == [tag |-> "NameAndType", name_index |-> n, descriptor_index |-> d]
MethodHandle(k, r) == [tag |-> "MethodHandle", reference_kind |-> k, reference_index |-> r]
MethodType(d) == [tag |-> "MethodType", descriptor_index |-> d]
InvokeDynamic(b, n) ==
    [tag |-> "InvokeDynamic", bootstrap_method_attr_index |-> b, name_and_type_index |-> n]

----------------------------------------------------------------------------
(* HashMap and Option *)

EmptyMap == [k \in {} |-> 0]
contains_key(m, k) == k \in DOMAIN m
insert(m, k, v) == [x \in (DOMAIN m) \cup {k} |-> IF x = k THEN v ELSE m[x]]
\* or_insert as it would be if the last value registered for a key stayed
or_insert_overwriting(m, k, v) == insert(m, k, v)

\* HashMap::entry(k).or_insert(v): the first value registered for a key stays
or_insert(m, k, v) == IF contains_key(m, k) THEN m ELSE insert(m, k, v)

None == <<>>
Some(x) == <<x>>
is_some(o) == o # None
unwrap(o) == o[1]

\* `x as u16`
\* `as u16` as it would be if it saturated instead of truncating
as_u16_saturating(x) == IF x >= IndexLimit THEN IndexLimit - 1 ELSE x

as_u16(x) == x % IndexLimit

\* slice::get(index): Rust indices are 0-based, sequences 1-based
get(cp, index) == IF index < Len(cp) THEN Some(cp[index + 1]) ELSE None

----------------------------------------------------------------------------
(* The builder record.  The operators below work on the builder's fields    *)
(* extended with the two histories `pushed` and `calls`.                     *)

Default ==
    [cp |-> <<>>, utf8 |-> EmptyMap, class |-> EmptyMap, string |-> EmptyMap,
     name_and_type |-> EmptyMap, field_ref |-> EmptyMap, method_ref |-> EmptyMap,
     interface_method_ref |-> EmptyMap, method_type |-> EmptyMap,
     method_handle |-> EmptyMap, invoke_dynamic |-> EmptyMap]

NoCalls ==
    [utf8 |-> {}, class |-> {}, string |-> {}, integer |-> {}, float |-> {},
     long |-> {}, double |-> {}, name_and_type |-> {}, field_ref |-> {},
     method_ref |-> {}, interface_method_ref |-> {}, method_type |-> {},
     method_handle |-> {}, invoke_dynamic |-> {}]

\* fn push(&mut self, entry) -> u16
push(self, entry) ==
    LET cp2 == Append(self.cp, entry)
    IN  [self |-> [self EXCEPT !.cp = cp2, !.pushed = Append(@, entry)],
         index |-> as_u16(Len(cp2) - 1)]

\* the bare `self.cp.push(CpInfo::Unusable)` of long and double
cp_push(self, entry) ==
    [self EXCEPT !.cp = Append(@, entry), !.pushed = Append(@, entry)]

\* a method returning `index`: the call is written to the history
return(self, op, args, index) ==
    [self |-> [self EXCEPT !.calls[op] = @ \cup {<<args, index>>}], index |-> index]

\* utf8 as it would be without the map lookup: every call appends
utf8_without_lookup(self, value) ==
    LET p == push(self, Utf8(value))
    IN  return([p.self EXCEPT !.utf8 = insert(@, value, p.index)],
               "utf8", <<value>>, p.index)

utf8(self, value) ==
    IF contains_key(self.utf8, value)
    THEN return(self, "utf8", <<value>>, self.utf8[value])
    ELSE LET p == push(self, Utf8(value))
         IN  return([p.self EXCEPT !.utf8 = insert(@, value, p.index)],
                    "utf8", <<value>>, p.index)

\* class as it would be without the map lookup
class_without_lookup(self, name) ==
    LET u == utf8(self, name)
        p == push(u.self, Class(u.index))
    IN  return([p.self EXCEPT !.class = insert(@, name, p.index)],
               "class", <<name>>, p.index)

class(self, name) ==
    IF contains_key(self.class, name)
    THEN return(self, "class", <<name>>, self.class[name])
    ELSE LET u == utf8(self, name)
             p == push(u.self, Class(u.index))
         IN  return([p.self EXCEPT !.class = insert(@, name, p.index)],
                    "class", <<name>>, p.index)

\* string as it would be if it appended its entry before its dependency
string_entry_first(self, value) ==
    IF contains_key(self.string, value)
    THEN return(self, "string", <<value>>, self.string[value])
    ELSE LET known == contains_key(self.utf8, value)
             p == push(self, String(IF known THEN self.utf8[value]
                                             ELSE as_u16(Len(self.cp) + 1)))
             u == utf8(p.self, value)
         IN  return([u.self EXCEPT !.string = insert(@, value, p.index)],
                    "string", <<value>>, p.index)

string(self, value) ==
    IF contains_key(self.string, value)
    THEN return(self, "string", <<value>>, self.string[value])
    ELSE LET u == utf8(self, value)
             p == push(u.self, String(u.index))
         IN  return([p.self EXCEPT !.string = insert(@, value, p.index)],
                    "string", <<value>>, p.index)

\* integer as it would be if it reused an existing Integer(value) slot
integer_deduplicated(self, value) ==
    LET same == { i \in 1..Len(self.cp) : self.cp[i] = Integer(value) }
    IN  IF same # {}
        THEN return(self, "integer", <<value>>,
                    as_u16((CHOOSE i \in same : \A j \in same : i <= j) - 1))
        ELSE LET p == push(self, Integer(value))
             IN  return(p.self, "integer", <<value>>, p.index)

integer(self, value) ==
    LET p == push(self, Integer(value))
    IN  return(p.self, "integer", <<value>>, p.index)

float(self, value) ==
    LET p == push(self, Float(value))
    IN  return(p.self, "float", <<value>>, p.index)

\* long as it would be without the placeholder slot
long_one_slot(self, value) ==
    LET p == push(self, Long(value))
    IN  return(p.self, "long", <<value>>, p.index)

long(self, value) ==
    LET p == push(self, Long(value))
    IN  return(cp_push(p.self, Unusable), "long", <<value>>, p.index)

double(self, value) ==
    LET p == push(self, Double(value))
    IN  return(cp_push(p.self, Unusable), "double", <<value>>, p.index)

\* name_and_type as it would be with the two index fields exchanged
name_and_type_swapped(self, name, descriptor) ==
    LET key == <<name, descriptor>>
    IN  IF contains_key(self.name_and_type, key)
        THEN return(self, "name_and_type", key, self.name_and_type[key])
        ELSE LET n == utf8(self, name)
                 d == utf8(n.self, descriptor)
                 p == push(d.self, NameAndType(d.index, n.index))
             IN  return([p.self EXCEPT !.name_and_type = insert(@, key, p.index)],
                        "name_and_type", key, p.index)

name_and_type(self, name, descriptor) ==
    LET key == <<name, descriptor>>
    IN  IF contains_key(self.name_and_type, key)
        THEN return(self, "name_and_type", key, self.name_and_type[key])
        ELSE LET n == utf8(self, name)
                 d == utf8(n.self, descriptor)
                 p == push(d.self, NameAndType(n.index, d.index))
             IN  return([p.self EXCEPT !.name_and_type = insert(@, key, p.index)],
                        "name_and_type", key, p.index)

\* field_ref as it would be with the two index fields exchanged
field_ref_swapped(self, owner, name, descriptor) ==
    LET key == <<owner, name, descriptor>>
    IN  IF contains_key(self.field_ref, key)
        THEN return(self, "field_ref", key, self.field_ref[key])
        ELSE LET c == class(self, owner)
                 n == name_and_type(c.self, name, descriptor)
                 p == push(n.self, Fieldref(n.index, c.index))
             IN  return([p.self EXCEPT !.field_ref = insert(@, key, p.index)],
                        "field_ref", key, p.index)

field_ref(self, owner, name, descriptor) ==
    LET key == <<owner, name, descriptor>>
    IN  IF contains_key(self.field_ref, key)
        THEN return(self, "field_ref", key, self.field_ref[key])
        ELSE LET c == class(self, owner)
                 n == name_and_type(c.self, name, descriptor)
                 p == push(n.self, Fieldref(c.index, n.index))
             IN  return([p.self EXCEPT !.field_ref = insert(@, key, p.index)],
                        "field_ref", key, p.index)

\* method_ref as it would be if it shared the map of field_ref
method_ref_in_field_map(self, owner, name, descriptor) ==
    LET key == <<owner, name, descriptor>>
    IN  IF contains_key(self.field_ref, key)
        THEN return(self, "method_ref", key, self.field_ref[key])
        ELSE LET c == class(self, owner)
                 n == name_and_type(c.self, name, descriptor)
                 p == push(n.self, Methodref(c.index, n.index))
             IN  return([p.self EXCEPT !.field_ref = insert(@, key, p.index)],
                        "method_ref", key, p.index)

method_ref(self, owner, name, descriptor) ==
    LET key == <<owner, name, descriptor>>
    IN  IF contains_key(self.method_ref, key)
        THEN return(self, "method_ref", key, self.method_ref[key])
        ELSE LET c == class(self, owner)
                 n == name_and_type(c.self, name, descriptor)
                 p == push(n.self, Methodref(c.index, n.index))
             IN  return([p.self EXCEPT !.method_ref = insert(@, key, p.index)],
                        "method_ref", key, p.index)

interface_method_ref(self, owner, name, descriptor) ==
    LET key == <<owner, name, descriptor>>
    IN  IF contains_key(self.interface_method_ref, key)
        THEN return(self, "interface_method_ref", key, self.interface_method_ref[key])
        ELSE LET c == class(self, owner)
                 n == name_and_type(c.self, name, descriptor)
                 p == push(n.self, InterfaceMethodref(c.index, n.index))
             IN  return([p.self EXCEPT !.interface_method_ref = insert(@, key, p.index)],
                        "interface_method_ref", key, p.index)

method_type(self, descriptor) ==
    IF contains_key(self.method_type, descriptor)
    THEN return(self, "method_type", <<descriptor>>, self.method_type[descriptor])
    ELSE LET d == utf8(self, descriptor)
             p == push(d.self, MethodType(d.index))
         IN  return([p.self EXCEPT !.method_type = insert(@, descriptor, p.index)],
                    "method_type", <<descriptor>>, p.index)

\* the dispatch as it would be if is_interface chose the interface path
reference_by_is_interface(self, handle) ==
    IF handle.reference_kind \in {1, 2, 3, 4}
    THEN field_ref(self, handle.owner, handle.name, handle.descriptor)
    ELSE IF handle.reference_kind = 9 \/ handle.is_interface
    THEN interface_method_ref(self, handle.owner, handle.name, handle.descriptor)
    ELSE method_ref(self, handle.owner, handle.name, handle.descriptor)

\* the `match handle.reference_kind` of method_handle
reference(self, handle) ==
    IF handle.reference_kind \in {1, 2, 3, 4}
    THEN field_ref(self, handle.owner, handle.name, handle.descriptor)
    ELSE IF handle.reference_kind = 9
    THEN interface_method_ref(self, handle.owner, handle.name, handle.descriptor)
    ELSE method_ref(self, handle.owner, handle.name, handle.descriptor)

method_handle(self, handle) ==
    LET key == <<handle.reference_kind, handle.owner, handle.name,
                 handle.descriptor, handle.is_interface>>
    IN  IF contains_key(self.method_handle, key)
        THEN return(self, "method_handle", key, self.method_handle[key])
        ELSE LET r == reference(self, handle)
                 p == push(r.self, MethodHandle(handle.reference_kind, r.index))
             IN  return([p.self EXCEPT !.method_handle = insert(@, key, p.index)],
                        "method_handle", key, p.index)

\* invoke_dynamic as it would be if its key left out the bootstrap method index
invoke_dynamic_by_name(self, bsm_index, name, descriptor) ==
    LET key == <<0, name, descriptor>>
        args == <<bsm_index, name, descriptor>>
    IN  IF contains_key(self.invoke_dynamic, key)
        THEN return(self, "invoke_dynamic", args, self.invoke_dynamic[key])
        ELSE LET n == name_and_type(self, name, descriptor)
                 p == push(n.self, InvokeDynamic(bsm_index, n.index))
             IN  return([p.self EXCEPT !.invoke_dynamic = insert(@, key, p.index)],
                        "invoke_dynamic", args, p.index)

invoke_dynamic(self, bsm_index, name, descriptor) ==
    LET key == <<bsm_index, name, descriptor>>
    IN  IF contains_key(self.invoke_dynamic, key)
        THEN return(self, "invoke_dynamic", key, self.invoke_dynamic[key])
        ELSE LET n == name_and_type(self, name, descriptor)
                 p == push(n.self, InvokeDynamic(bsm_index, n.index))
             IN  return([p.self EXCEPT !.invoke_dynamic = insert(@, key, p.index)],
                        "invoke_dynamic", key, p.index)

----------------------------------------------------------------------------
(* Construction and consumption *)

\* the instrumented record the methods work on, and its builder fields
with_history(b, ps, cs) ==
    [cp |-> b.cp, utf8 |-> b.utf8, class |-> b.class, string |-> b.string,
     name_and_type |-> b.name_and_type, field_ref |-> b.field_ref,
     method_ref |-> b.method_ref, interface_method_ref |-> b.interface_method_ref,
     method_type |-> b.method_type, method_handle |-> b.method_handle,
     invoke_dynamic |-> b.invoke_dynamic, pushed |-> ps, calls |-> cs]

fields(self) == [f \in DOMAIN Default |-> self[f]]

\* new as it would be without the reserved slot
new_without_slot0 == Default

\* pub fn new() -> Self
new == [Default EXCEPT !.cp = <<Unusable>>]

\* the helper functions nested in from_pool
cp_utf8(cp, index) ==
    LET e == get(cp, index)
    IN  IF is_some(e) /\ unwrap(e).tag = "Utf8" THEN Some(unwrap(e).string) ELSE None

\* cp_class_name as it would be if it took a Utf8 entry for the class name
cp_class_name_any_kind(cp, index) ==
    LET e == get(cp, index)
    IN  IF is_some(e) /\ unwrap(e).tag = "Class"
        THEN cp_utf8(cp, unwrap(e).name_index)
        ELSE cp_utf8(cp, index)

cp_class_name(cp, index) ==
    LET e == get(cp, index)
    IN  IF is_some(e) /\ unwrap(e).tag = "Class"
        THEN cp_utf8(cp, unwrap(e).name_index)
        ELSE None

cp_name_and_type(cp, index) ==
    LET e == get(cp, index)
    IN  IF is_some(e) /\ unwrap(e).tag = "NameAndType"
        THEN LET name == cp_utf8(cp, unwrap(e).name_index)
                 desc == cp_utf8(cp, unwrap(e).descriptor_index)
             IN  IF is_some(name) /\ is_some(desc)
                 THEN Some(<<unwrap(name), unwrap(desc)>>)
                 ELSE None
        ELSE None

cp_member_ref(cp, index) ==
    LET e == get(cp, index)
    IN  IF is_some(e) /\ unwrap(e).tag \in {"Fieldref", "Methodref", "InterfaceMethodref"}
        THEN LET owner == cp_class_name(cp, unwrap(e).class_index)
                 nt == cp_name_and_type(cp, unwrap(e).name_and_type_index)
             IN  IF is_some(owner) /\ is_some(nt)
                 THEN Some(<<unwrap(owner), unwrap(nt)[1], unwrap(nt)[2],
                             unwrap(e).tag = "InterfaceMethodref">>)
                 ELSE None
        ELSE None

\* the owner/name/descriptor of a member reference entry, as the three *ref arms
\* of the registration loop resolve it
cp_owner_name_desc(cp, entry) ==
    LET owner == cp_class_name(cp, entry.class_index)
        nt == cp_name_and_type(cp, entry.name_and_type_index)
    IN  IF is_some(owner) /\ is_some(nt)
        THEN Some(<<unwrap(owner), unwrap(nt)[1], unwrap(nt)[2]>>)
        ELSE None

\* one iteration of `for (index, entry) in builder.cp.iter().enumerate()`
register(b, i) ==
    LET index == as_u16(i)
        entry == b.cp[i + 1]
        t == entry.tag
    IN  IF t = "Utf8" THEN [b EXCEPT !.utf8 = or_insert(@, entry.string, index)]
        ELSE IF t = "Class" THEN
            LET name == cp_utf8(b.cp, entry.name_index)
            IN  IF is_some(name)
                THEN [b EXCEPT !.class = or_insert(@, unwrap(name), index)] ELSE b
        ELSE IF t = "String" THEN
            LET value == cp_utf8(b.cp, entry.string_index)
            IN  IF is_some(value)
                THEN [b EXCEPT !.string = or_insert(@, unwrap(value), index)] ELSE b
        ELSE IF t = "NameAndType" THEN
            LET name == cp_utf8(b.cp, entry.name_index)
                desc == cp_utf8(b.cp, entry.descriptor_index)
            IN  IF is_some(name) /\ is_some(desc)
                THEN [b EXCEPT !.name_and_type =
                          or_insert(@, <<unwrap(name), unwrap(desc)>>, index)]
                ELSE b
        ELSE IF t = "Fieldref" THEN
            LET k == cp_owner_name_desc(b.cp, entry)
            IN  IF is_some(k)
                THEN [b EXCEPT !.field_ref = or_insert(@, unwrap(k), index)] ELSE b
        ELSE IF t = "Methodref" THEN
            LET k == cp_owner_name_desc(b.cp, entry)
            IN  IF is_some(k)
                THEN [b EXCEPT !.method_ref = or_insert(@, unwrap(k), index)] ELSE b
        ELSE IF t = "InterfaceMethodref" THEN
            LET k == cp_owner_name_desc(b.cp, entry)
            IN  IF is_some(k)
                THEN [b EXCEPT !.interface_method_ref = or_insert(@, unwrap(k), index)]
                ELSE b
        ELSE IF t = "MethodType" THEN
            LET desc == cp_utf8(b.cp, entry.descriptor_index)
            IN  IF is_some(desc)
                THEN [b EXCEPT !.method_type = or_insert(@, unwrap(desc), index)] ELSE b
        ELSE IF t = "MethodHandle" THEN
            LET m == cp_member_ref(b.cp, entry.reference_index)
            IN  IF is_some(m)
                THEN [b EXCEPT !.method_handle =
                          or_insert(@, <<entry.reference_kind>> \o unwrap(m), index)]
                ELSE b
        ELSE IF t = "InvokeDynamic" THEN
            LET nt == cp_name_and_type(b.cp, entry.name_and_type_index)
            IN  IF is_some(nt)
                THEN [b EXCEPT !.invoke_dynamic =
                          or_insert(@, <<entry.bootstrap_method_attr_index>> \o unwrap(nt),
                                    index)]
                ELSE b
        ELSE b

\* the iterations for the slots lo .. hi - 1, in increasing order (the range
\* is halved so that the nesting stays shallow on a pool of 2^16 slots)
RECURSIVE register_range(_, _, _)
register_range(b, lo, hi) ==
    IF lo >= hi \/ lo >= Len(b.cp) THEN b
    ELSE IF hi = lo + 1 THEN register(b, lo)
    ELSE LET mid == (lo + hi) \div 2
         IN  register_range(register_range(b, lo, mid), mid, hi)

register_from(b, i) == register_range(b, i, Len(b.cp))

\* from_pool as it would be if it rewrote slot 0 of the adopted pool
from_pool_resetting_slot0(p) ==
    LET cp == IF p = <<>> THEN <<Unusable>> ELSE [p EXCEPT ![1] = Unusable]
    IN  register_from([Default EXCEPT !.cp = cp], 0)

\* pub fn from_pool(pool: Vec<CpInfo>) -> Self
from_pool(p) ==
    LET cp == IF p = <<>> THEN <<Unusable>> ELSE p
    IN  register_from([Default EXCEPT !.cp = cp], 0)

\* into_pool as it would be if it left out the reserved slot
into_pool_without_slot0(self) == Tail(self.cp)

\* pub fn into_pool(self) -> Vec<CpInfo>
into_pool(self) == self.cp

----------------------------------------------------------------------------
(* The pools handed to from_pool: pools a builder produced, each also with   *)
(* one slot damaged (an index field redirected anywhere from 0 to one past   *)
(* the end, a reference kind changed, or the whole entry replaced by a leaf  *)
(* entry).                                                                   *)

Fresh == with_history(new, <<>>, NoCalls)

BasePools ==
    { into_pool(field_ref(Fresh, "a", "a", "a").self),
      into_pool(invoke_dynamic(Fresh, 1, "a", "b").self),
      into_pool(method_handle(Fresh,
          [reference_kind |-> 9, owner |-> "a", name |-> "a", descriptor |-> "a",
           is_interface |-> TRUE]).self) }

IndexFields ==
    {"name_index", "string_index", "descriptor_index", "class_index",
     "name_and_type_index", "reference_index"}

\* the entries that differ from e in one index field or in the reference kind,
\* or are a leaf entry
Damaged(e, n) ==
    { [e EXCEPT ![f] = i] : f \in (DOMAIN e) \cap IndexFields, i \in 0..n }
        \cup { [e EXCEPT ![f] = k] : f \in (DOMAIN e) \cap {"reference_kind"}, k \in Kinds }
        \cup {Unusable, Utf8("a"), Integer(5)}

AdoptPools ==
    {<<>>} \cup BasePools \cup
    { [p EXCEPT ![k] = e] : p \in BasePools, k \in 1..3, e \in {Unusable} } \cup
    UNION { UNION { { [p EXCEPT ![k] = e] : e \in Damaged(p[k], Len(p)) }
                    : k \in 1..Len(p) } : p \in BasePools }

----------------------------------------------------------------------------
(* Actions: the state before construction, the two constructors, one action *)
(* per insertion method, and into_pool.                                      *)

NoCall == [op |-> "none", args |-> <<>>, index |-> 0, pre |-> <<>>, earlier |-> {}]

\* no builder constructed yet
NoBuilder ==
    /\ pc = "start"
    /\ ctor = "none"
    /\ pool = <<>>
    /\ builder = Default
    /\ pushed = <<>>
    /\ calls = NoCalls
    /\ call = NoCall
    /\ ncalls = 0
    /\ out = <<>>

NoReturn == [op |-> "none", panic |-> FALSE, value |-> <<>>]

\* parse not called yet
NoParse ==
    /\ cursor = 0
    /\ frames = <<>>
    /\ scanned = <<>>

\* no descriptor given yet
NoType ==
    /\ at = "idle"
    /\ input = <<>>
    /\ ty = [tag |-> "Void"]
    /\ ret = NoReturn
    /\ NoParse

Init == NoBuilder /\ NoType

New ==
    /\ pc = "start"
    /\ pc' = "built"
    /\ ctor' = "new"
    /\ builder' = new
    /\ UNCHANGED <<pool, pushed, calls, call, ncalls, out>>
    /\ UNCHANGED tvars

FromPool(p) ==
    /\ pc = "start"
    /\ pc' = "built"
    /\ ctor' = "from_pool"
    /\ pool' = p
    /\ builder' = from_pool(p)
    /\ UNCHANGED <<pushed, calls, call, ncalls, out>>
    /\ UNCHANGED tvars

Self == with_history(builder, pushed, calls)

\* the indices earlier calls of method op returned for the same arguments
Earlier(op, args) == { c[2] : c \in { x \in calls[op] : x[1] = args } }

\* a call of an insertion method with result r (the new builder and the
\* index), as long as fewer than limit calls were made
Insert(op, args, r, limit) ==
    /\ pc = "built"
    /\ ncalls < limit
    /\ ncalls' = ncalls + 1
    /\ builder' = fields(r.self)
    /\ pushed' = r.self.pushed
    /\ calls' = r.self.calls
    /\ call' = [op |-> op, args |-> args, index |-> r.index, pre |-> builder.cp,
                earlier |-> Earlier(op, args)]
    /\ UNCHANGED <<pc, ctor, pool, out>>
    /\ UNCHANGED tvars

Insertion(op, args, r) ==
    Insert(op, args, r, IF ctor = "new" THEN MaxCalls ELSE MaxAdoptedCalls)

CallUtf8(value) == Insertion("utf8", <<value>>, utf8(Self, value))
CallClass(name) == Insertion("class", <<name>>, class(Self, name))
CallString(value) == Insertion("string", <<value>>, string(Self, value))
CallInteger(value) == Insertion("integer", <<value>>, integer(Self, value))
CallFloat(value) == Insertion("float", <<value>>, float(Self, value))
CallLong(value) == Insertion("long", <<value>>, long(Self, value))
CallDouble(value) == Insertion("double", <<value>>, double(Self, value))
CallNameAndType(n, d) == Insertion("name_and_type", <<n, d>>, name_and_type(Self, n, d))
CallFieldRef(o, n, d) == Insertion("field_ref", <<o, n, d>>, field_ref(Self, o, n, d))
CallMethodRef(o, n, d) == Insertion("method_ref", <<o, n, d>>, method_ref(Self, o, n, d))
CallInterfaceMethodRef(o, n, d) ==
    Insertion("interface_method_ref", <<o, n, d>>, interface_method_ref(Self, o, n, d))
CallMethodType(d) == Insertion("method_type", <<d>>, method_type(Self, d))
CallMethodHandle(h) ==
    Insertion("method_handle",
              <<h.reference_kind, h.owner, h.name, h.descriptor, h.is_interface>>,
              method_handle(Self, h))
CallInvokeDynamic(b, n, d) ==
    Insertion("invoke_dynamic", <<b, n, d>>, invoke_dynamic(Self, b, n, d))

IntoPool ==
    /\ pc = "built"
    /\ pc' = "consumed"
    /\ out' = into_pool(builder)
    /\ call' = [NoCall EXCEPT !.op = "into_pool", !.pre = builder.cp]
    /\ UNCHANGED <<ctor, pool, builder, pushed, calls, ncalls>>
    /\ UNCHANGED tvars

Next ==
    \/ New
    \/ \E p \in AdoptPools : FromPool(p)
    \/ \E v \in Strings : CallUtf8(v)
    \/ \E v \in Strings : CallClass(v)
    \/ \E v \in Strings : CallString(v)
    \/ \E v \in Numbers : CallInteger(v)
    \/ \E v \in Numbers : CallFloat(v)
    \/ \E v \in Numbers : CallLong(v)
    \/ \E v \in Numbers : CallDouble(v)
    \/ \E t \in Pairs : CallNameAndType(t[1], t[2])
    \/ \E t \in Triples : CallFieldRef(t[1], t[2], t[3])
    \/ \E t \in Triples : CallMethodRef(t[1], t[2], t[3])
    \/ \E t \in Triples : CallInterfaceMethodRef(t[1], t[2], t[3])
    \/ \E d \in Strings : CallMethodType(d)
    \/ \E h \in Handles : CallMethodHandle(h)
    \/ \E b \in BsmIndices : CallInvokeDynamic(b, "a", "b")
    \/ IntoPool

Spec == Init /\ [][Next]_vars

----------------------------------------------------------------------------
(* Vocabulary of the properties: what an index addresses in a pool.          *)

DedupOps ==
    {"utf8", "class", "string", "name_and_type", "field_ref", "method_ref",
     "interface_method_ref", "method_type", "method_handle", "invoke_dynamic"}

DedupTags ==
    {"Utf8", "Class", "String", "NameAndType", "Fieldref", "Methodref",
     "InterfaceMethodref", "MethodType", "MethodHandle", "InvokeDynamic"}

RefTag ==
    [field_ref |-> "Fieldref", method_ref |-> "Methodref",
     interface_method_ref |-> "InterfaceMethodref"]

\* the entry at (0-based) index i of pool p has tag t
HasTag(p, i, t) == i >= 0 /\ i < Len(p) /\ p[i + 1].tag = t

IsUtf8(p, i, s) == HasTag(p, i, "Utf8") /\ p[i + 1].string = s
IsClass(p, i, n) == HasTag(p, i, "Class") /\ IsUtf8(p, p[i + 1].name_index, n)
IsString(p, i, v) == HasTag(p, i, "String") /\ IsUtf8(p, p[i + 1].string_index, v)
IsMethodType(p, i, d) ==
    HasTag(p, i, "MethodType") /\ IsUtf8(p, p[i + 1].descriptor_index, d)
IsNameAndType(p, i, n, d) ==
    /\ HasTag(p, i, "NameAndType")
    /\ IsUtf8(p, p[i + 1].name_index, n)
    /\ IsUtf8(p, p[i + 1].descriptor_index, d)
IsRef(p, i, t, o, n, d) ==
    /\ HasTag(p, i, t)
    /\ IsClass(p, p[i + 1].class_index, o)
    /\ IsNameAndType(p, p[i + 1].name_and_type_index, n, d)
IsInvokeDynamic(p, i, b, n, d) ==
    /\ HasTag(p, i, "InvokeDynamic")
    /\ p[i + 1].bootstrap_method_attr_index = b
    /\ IsNameAndType(p, p[i + 1].name_and_type_index, n, d)

\* the pool the builder starts from, and whether the last call appended
BasePool == IF ctor = "new" \/ pool = <<>> THEN <<Unusable>> ELSE pool
Inserting == pc = "built" /\ call.op # "none"
Appended == Inserting /\ Len(builder.cp) > Len(call.pre)

----------------------------------------------------------------------------
(* C1 *)

\* C1: dedup idempotence.  In every builder state (made by new() or adopted),
\* a call of a deduplicated method whose arguments equal those of an earlier
\* call returns the index the earlier call returned and leaves the pool as it
\* was; over the whole history (nested calls included) equal arguments always
\* got equal indices.
DedupIdempotence ==
    /\ \A op \in DedupOps : \A x \in calls[op], y \in calls[op] :
           x[1] = y[1] => x[2] = y[2]
    /\ (Inserting /\ call.op \in DedupOps /\ call.earlier # {}) =>
           /\ call.earlier = {call.index}
           /\ builder.cp = call.pre

\* a deduplicated call was repeated after another insertion that grew the pool
DedupIdempotenceWitness ==
    /\ Inserting
    /\ call.op = "method_handle"
    /\ call.earlier # {}
    /\ call.index < Len(call.pre) - 1
    /\ ncalls = 3

----------------------------------------------------------------------------
(* C2 *)

\* C2: in a builder made by new(), the index every insertion returned
\* addresses an entry of the requested kind whose index fields resolve to the
\* call's arguments (utf8, class, string, name_and_type, the three member
\* references, method_type, invoke_dynamic).
CorrectWiring ==
    (ctor = "new") =>
        LET cp == builder.cp
        IN  /\ \A c \in calls.utf8 : IsUtf8(cp, c[2], c[1][1])
            /\ \A c \in calls.class : IsClass(cp, c[2], c[1][1])
            /\ \A c \in calls.string : IsString(cp, c[2], c[1][1])
            /\ \A c \in calls.name_and_type : IsNameAndType(cp, c[2], c[1][1], c[1][2])
            /\ \A op \in DOMAIN RefTag : \A c \in calls[op] :
                   IsRef(cp, c[2], RefTag[op], c[1][1], c[1][2], c[1][3])
            /\ \A c \in calls.method_type : IsMethodType(cp, c[2], c[1][1])
            /\ \A c \in calls.invoke_dynamic :
                   IsInvokeDynamic(cp, c[2], c[1][1], c[1][2], c[1][3])

\* method_ref("b", "a", "b") on the empty builder materialised its five dependencies
CorrectWiringWitness ==
    /\ ctor = "new"
    /\ Inserting
    /\ call.op = "method_ref"
    /\ call.args = <<"b", "a", "b">>
    /\ call.pre = <<Unusable>>
    /\ builder.cp = <<Unusable, Utf8("b"), Class(1), Utf8("a"), NameAndType(3, 1),
                      Methodref(2, 4)>>
    /\ call.index = 5

----------------------------------------------------------------------------
(* C3 *)

\* C3: in a builder made by new(), no two slots hold structurally identical
\* entries of a deduplicated kind.
NoDuplicateEntries ==
    (ctor = "new") =>
        \A i \in 1..Len(builder.cp), j \in 1..Len(builder.cp) :
            (i < j /\ builder.cp[i].tag \in DedupTags) => builder.cp[i] # builder.cp[j]

----------------------------------------------------------------------------
(* C4 *)

\* C4: two-slot accounting.  long(v) and double(v) grow the pool by exactly
\* two slots: Long(v)/Double(v) at the old length, Unusable right after it,
\* and the returned index is the old length.
TwoSlotAccounting ==
    (Inserting /\ call.op \in {"long", "double"}) =>
        LET n == Len(call.pre)
            cp == builder.cp
        IN  /\ Len(cp) = n + 2
            /\ cp[n + 1] = (IF call.op = "long" THEN Long(call.args[1])
                                                ELSE Double(call.args[1]))
            /\ cp[n + 2] = Unusable
            /\ call.index = n

\* a long and a double were inserted one after the other
TwoSlotAccountingWitness ==
    /\ Inserting
    /\ call.op = "double"
    /\ Len(call.pre) = 3
    /\ call.pre[2] = Long(5)
    /\ builder.cp[4] = Double(5)

----------------------------------------------------------------------------
(* C5 *)

\* C5: numeric literals are not deduplicated.  integer(v) and float(v) append
\* exactly one fresh entry, long(v) and double(v) a fresh pair; the returned
\* index is the new entry's, and differs from the index of every earlier call
\* with the same value.
NumericNotDeduplicated ==
    (Inserting /\ call.op \in {"integer", "float", "long", "double"}) =>
        LET n == Len(call.pre)
            cp == builder.cp
            v == call.args[1]
        IN  /\ Len(cp) = n + (IF call.op \in {"long", "double"} THEN 2 ELSE 1)
            /\ call.index = n
            /\ call.index \notin call.earlier
            /\ cp[n + 1] = (CASE call.op = "integer" -> Integer(v)
                              [] call.op = "float" -> Float(v)
                              [] call.op = "long" -> Long(v)
                              [] call.op = "double" -> Double(v))

\* integer(5) was called a second time and got a second slot
NumericNotDeduplicatedWitness ==
    /\ Inserting
    /\ call.op = "integer"
    /\ call.earlier # {}
    /\ \E i \in 1..Len(call.pre) : call.pre[i] = Integer(call.args[1])
    /\ builder.cp[call.index + 1] = Integer(call.args[1])

----------------------------------------------------------------------------
(* C6 *)

\* the member-reference entry kind the claim demands for a reference kind
DemandedTag(kind) ==
    IF kind \in 1..4 THEN "Fieldref"
    ELSE IF kind = 9 THEN "InterfaceMethodref"
    ELSE "Methodref"

\* C6: method-handle dispatch.  When method_handle(h) appends a MethodHandle
\* entry, the entry is the last slot and the returned index, it carries
\* h.reference_kind, and its reference_index addresses a Fieldref for
\* (owner, name, descriptor) for kinds 1..4, an InterfaceMethodref for kind 9
\* and a Methodref for every other kind, whatever h.is_interface is.
MethodHandleDispatch ==
    (Appended /\ call.op = "method_handle") =>
        LET cp == builder.cp
            e == cp[Len(cp)]
        IN  /\ call.index = Len(cp) - 1
            /\ e.tag = "MethodHandle"
            /\ e.reference_kind = call.args[1]
            /\ IsRef(cp, e.reference_index, DemandedTag(call.args[1]),
                     call.args[2], call.args[3], call.args[4])

\* a handle of kind 5 flagged is_interface was appended (and went to a Methodref)
MethodHandleDispatchWitness ==
    /\ Appended
    /\ call.op = "method_handle"
    /\ call.args[1] = 5
    /\ call.args[5] = TRUE
    /\ builder.cp[Len(builder.cp)].tag = "MethodHandle"

----------------------------------------------------------------------------
(* C7 *)

\* the member-reference calls whose entry the builder itself appended
InsertedRefs(op) ==
    { c \in calls[op] : c[2] >= Len(BasePool) /\ HasTag(builder.cp, c[2], RefTag[op]) }

\* C7: shared-dependency dedup.  After field_ref, method_ref or
\* interface_method_ref (o, n, d) inserted its entry, class(o) returns the
\* class_index stored in that entry and name_and_type(n, d) returns its
\* name_and_type_index, and neither call grows the pool.
SharedDependencyDedup ==
    \A op \in DOMAIN RefTag : \A c \in InsertedRefs(op) :
        LET e == builder.cp[c[2] + 1]
        IN  /\ (Inserting /\ call.op = "class" /\ call.args = <<c[1][1]>>) =>
                   (call.index = e.class_index /\ builder.cp = call.pre)
            /\ (Inserting /\ call.op = "name_and_type"
                     /\ call.args = <<c[1][2], c[1][3]>>) =>
                   (call.index = e.name_and_type_index /\ builder.cp = call.pre)

\* class(o) was called after method_ref(o, n, d) and another insertion
SharedDependencyDedupWitness ==
    /\ Inserting
    /\ call.op = "class"
    /\ ncalls = 3
    /\ \E c \in InsertedRefs("method_ref") :
           c[1][1] = call.args[1] /\ call.index = builder.cp[c[2] + 1].class_index

----------------------------------------------------------------------------
(* C8 *)

\* the adopted Fieldref slots whose class_index addresses no Class entry
MalformedFieldrefs ==
    { i \in 0..(Len(pool) - 1) :
        /\ pool[i + 1].tag = "Fieldref"
        /\ ~ HasTag(pool, pool[i + 1].class_index, "Class") }

\* C8: adoption leniency.  from_pool builds a builder from every pool, also
\* one whose index fields are out of range or address the wrong kind.  An
\* adopted Fieldref whose class_index addresses a non-Class entry is not in
\* the field_ref map, keeps its slot unchanged, and is never returned by
\* field_ref: a field_ref call that no well-formed Fieldref of the pool
\* answers appends a new Fieldref and returns the new index.
AdoptionLeniency ==
    (ctor = "from_pool" /\ pc = "built") =>
        /\ \A i \in MalformedFieldrefs :
               /\ \A k \in DOMAIN builder.field_ref : builder.field_ref[k] # i
               /\ builder.cp[i + 1] = pool[i + 1]
               /\ \A c \in calls.field_ref : c[2] # i
        /\ (call.op = "field_ref"
                /\ ~ \E j \in 0..(Len(call.pre) - 1) :
                        IsRef(call.pre, j, "Fieldref",
                              call.args[1], call.args[2], call.args[3])) =>
               /\ call.index = Len(builder.cp) - 1
               /\ call.index >= Len(call.pre)
               /\ IsRef(builder.cp, call.index, "Fieldref",
                        call.args[1], call.args[2], call.args[3])

\* field_ref(o, n, d) on a pool holding a Fieldref whose name and type are
\* (n, d) and whose class_index addresses the Utf8 entry o instead of a Class
AdoptionLeniencyWitness ==
    /\ ctor = "from_pool"
    /\ Inserting
    /\ call.op = "field_ref"
    /\ call.index = Len(pool)
    /\ \E i \in MalformedFieldrefs :
           /\ IsUtf8(pool, pool[i + 1].class_index, call.args[1])
           /\ IsNameAndType(pool, pool[i + 1].name_and_type_index,
                            call.args[2], call.args[3])
           /\ builder.cp[i + 1] = pool[i + 1]

----------------------------------------------------------------------------
(* C9 *)

InsertionOps == DedupOps \cup {"integer", "float", "long", "double"}

\* C9 as claimed: whatever constructor made the builder, slot 0 holds
\* Unusable and no insertion returns index 0.
Slot0Reserved ==
    (pc = "built") =>
        /\ Len(builder.cp) >= 1
        /\ builder.cp[1] = Unusable
        /\ \A op \in InsertionOps : \A c \in calls[op] : c[2] # 0

\* C9 amended: the same for a builder made by new(), by from_pool(<<>>) or
\* by from_pool(p) with p[0] = Unusable (indices below the 16-bit limit).
Slot0ReservedWhenAdoptedSo ==
    (pc = "built" /\ BasePool[1] = Unusable) =>
        /\ Len(builder.cp) >= 1
        /\ builder.cp[1] = Unusable
        /\ \A op \in InsertionOps : \A c \in calls[op] : c[2] # 0

\* an insertion on an adopted, non-empty pool whose slot 0 is Unusable
Slot0ReservedWitness ==
    /\ ctor = "from_pool"
    /\ Len(pool) > 1
    /\ pool[1] = Unusable
    /\ Appended

----------------------------------------------------------------------------
(* C10 *)

\* C10: construction and consumption.  into_pool returns the pool the
\* builder started from (<<Unusable>> after new() and after from_pool(<<>>),
\* p itself after from_pool(p) for non-empty p) followed by the entries the
\* insertions appended, in insertion order.
ConstructionAndConsumption ==
    (pc = "consumed") => out = BasePool \o pushed

\* an adopted, non-empty pool was consumed after an insertion appended to it
ConstructionAndConsumptionWitness ==
    /\ pc = "consumed"
    /\ ctor = "from_pool"
    /\ pool # <<>>
    /\ pushed # <<>>
    /\ Len(out) = Len(pool) + Len(pushed)

----------------------------------------------------------------------------
(* C11 *)

\* the (0-based) indices of the slots the insertions appended
AppendedSlots == (Len(builder.cp) - Len(pushed))..(Len(builder.cp) - 1)

\* the entry kinds an index field of an entry of kind t must address
ExpectedTags(t, f) ==
    IF f \in {"name_index", "string_index", "descriptor_index"} THEN {"Utf8"}
    ELSE IF f = "class_index" THEN {"Class"}
    ELSE IF f = "name_and_type_index" THEN {"NameAndType"}
    ELSE {"Fieldref", "Methodref", "InterfaceMethodref"}

\* C11: index-kind invariant.  In every state of a builder made by new() or
\* from_pool(p), each index field of every entry an insertion appended
\* addresses an existing slot of the expected variant: Utf8 for name_index,
\* string_index and descriptor_index, Class for class_index, NameAndType for
\* name_and_type_index, a member reference for reference_index.
IndexKindInvariant ==
    (pc = "built") =>
        \A i \in AppendedSlots :
            LET e == builder.cp[i + 1]
            IN  \A f \in (DOMAIN e) \cap IndexFields :
                    \E t \in ExpectedTags(e.tag, f) : HasTag(builder.cp, e[f], t)

\* a method handle was appended, with its member reference, to an adopted
\* pool that held damaged entries
IndexKindInvariantWitness ==
    /\ ctor = "from_pool"
    /\ Appended
    /\ Len(pushed) >= 3
    /\ builder.cp[Len(builder.cp)].tag = "MethodHandle"
    /\ \E i \in 1..Len(pool) : pool[i].tag = "Class" /\ ~ HasTag(pool, pool[i].name_index, "Utf8")

----------------------------------------------------------------------------
(* C18 *)

\* the adopted entry at index i is a well-formed answer to call op(args)
AdoptedAnswer(op, args, i) ==
    CASE op = "utf8" -> IsUtf8(pool, i, args[1])
      [] op = "class" -> IsClass(pool, i, args[1])
      [] op = "string" -> IsString(pool, i, args[1])
      [] op = "method_type" -> IsMethodType(pool, i, args[1])
      [] op = "name_and_type" -> IsNameAndType(pool, i, args[1], args[2])
      [] op \in DOMAIN RefTag -> IsRef(pool, i, RefTag[op], args[1], args[2], args[3])
      [] op = "invoke_dynamic" -> IsInvokeDynamic(pool, i, args[1], args[2], args[3])
      [] op = "method_handle" ->
            /\ HasTag(pool, i, "MethodHandle")
            /\ pool[i + 1].reference_kind = args[1]
            /\ IsRef(pool, pool[i + 1].reference_index, DemandedTag(args[1]),
                     args[2], args[3], args[4])

\* C18: after from_pool(p), a deduplicated insertion returns the index of an
\* adopted slot only if that entry's index fields resolve, transitively, to
\* entries of the expected kind matching the call's arguments; for a
\* MethodHandle the member reference is of the kind its reference_kind
\* demands (Fieldref for 1..4, InterfaceMethodref for 9, Methodref otherwise).
AdoptedOnlyWellFormed ==
    (ctor = "from_pool" /\ pool # <<>>) =>
        \A op \in DedupOps : \A c \in calls[op] :
            c[2] < Len(pool) => AdoptedAnswer(op, c[1], c[2])

----------------------------------------------------------------------------
(* C19 *)

\* C19: append-only frame.  Every insertion leaves the slots that existed
\* before it unchanged (the pool before the call is a prefix of the pool
\* after it), and the pool the builder started from, adopted entries
\* included, stays a prefix of the builder's pool.
AppendOnlyFrame ==
    /\ Inserting =>
           /\ Len(builder.cp) >= Len(call.pre)
           /\ SubSeq(builder.cp, 1, Len(call.pre)) = call.pre
    /\ (pc = "built") =>
           /\ Len(builder.cp) = Len(BasePool) + Len(pushed)
           /\ SubSeq(builder.cp, 1, Len(BasePool)) = BasePool

\* an insertion appended to an adopted pool whose slot 0 is not Unusable
AppendOnlyFrameWitness ==
    /\ ctor = "from_pool"
    /\ Appended
    /\ Len(pool) > 1
    /\ pool[1] # Unusable
    /\ SubSeq(builder.cp, 1, Len(pool)) = pool

----------------------------------------------------------------------------
(* C20 *)

\* C20: dependencies precede dependents.  Each index field of every entry an
\* insertion appended (on a builder made by new() or from_pool) is strictly
\* smaller than the entry's own index.
DependenciesPrecede ==
    (pc = "built") =>
        \A i \in AppendedSlots :
            LET e == builder.cp[i + 1]
            IN  \A f \in (DOMAIN e) \cap IndexFields : e[f] < i

\* invoke_dynamic appended its NameAndType and both Utf8 entries before itself
DependenciesPrecedeWitness ==
    /\ Appended
    /\ call.op = "invoke_dynamic"
    /\ Len(builder.cp) = Len(call.pre) + 4
    /\ builder.cp[Len(builder.cp)].name_and_type_index = Len(builder.cp) - 2

----------------------------------------------------------------------------
(* types.rs: Type.  A string is the sequence of its bytes, each byte a      *)
(* one-character string; "x" stands for any byte the grammar has no use for. *)

\* pub enum Type
VOID_TYPE == [tag |-> "Void"]
BOOLEAN_TYPE == [tag |-> "Boolean"]
CHAR_TYPE == [tag |-> "Char"]
BYTE_TYPE == [tag |-> "Byte"]
SHORT_TYPE == [tag |-> "Short"]
INT_TYPE == [tag |-> "Int"]
FLOAT_TYPE == [tag |-> "Float"]
LONG_TYPE == [tag |-> "Long"]
DOUBLE_TYPE == [tag |-> "Double"]
Array(elem) == [tag |-> "Array", elem |-> elem]
Object(name) == [tag |-> "Object", name |-> name]
Method(argument_types, return_type) ==
    [tag |-> "Method", argument_types |-> argument_types, return_type |-> return_type]

\* the outcome of a call: a panic, or a returned value
Panic == [panic |-> TRUE]
Returned(v) == [panic |-> FALSE, value |-> v]

\* the outcome of parse: a panic, or the type and the advanced *pos
Parsed(t, pos) == [panic |-> FALSE, type |-> t, pos |-> pos]

\* the arms 'V' .. 'D' of the match in parse
PrimitiveOf ==
    [c \in {"V", "Z", "C", "B", "S", "I", "F", "J", "D"} |->
        CASE c = "V" -> VOID_TYPE
          [] c = "Z" -> BOOLEAN_TYPE
          [] c = "C" -> CHAR_TYPE
          [] c = "B" -> BYTE_TYPE
          [] c = "S" -> SHORT_TYPE
          [] c = "I" -> INT_TYPE
          [] c = "F" -> FLOAT_TYPE
          [] c = "J" -> LONG_TYPE
          [] c = "D" -> DOUBLE_TYPE]

\* while bytes[*pos] != b';' { *pos += 1; }   (None: the index ran out of bounds)
RECURSIVE scan_name(_, _)
scan_name(bytes, pos) ==
    IF pos >= Len(bytes) THEN None
    ELSE IF bytes[pos + 1] = ";" THEN Some(pos)
    ELSE scan_name(bytes, pos + 1)

RECURSIVE parse(_, _)
RECURSIVE parse_arguments_reversed(_, _, _)
RECURSIVE parse_arguments(_, _, _)

\* the argument loop as it would be if it put each argument in front
parse_arguments_reversed(bytes, pos, args) ==
    IF pos >= Len(bytes) THEN Panic
    ELSE IF bytes[pos + 1] = ")" THEN [panic |-> FALSE, args |-> args, pos |-> pos]
    ELSE LET a == parse(bytes, pos)
         IN  IF a.panic THEN Panic
             ELSE parse_arguments_reversed(bytes, a.pos, <<a.type>> \o args)

\* while bytes[*pos] != b')' { args.push(Self::parse(bytes, pos)); }
parse_arguments(bytes, pos, args) ==
    IF pos >= Len(bytes) THEN Panic
    ELSE IF bytes[pos + 1] = ")" THEN [panic |-> FALSE, args |-> args, pos |-> pos]
    ELSE LET a == parse(bytes, pos)
         IN  IF a.panic THEN Panic
             ELSE parse_arguments(bytes, a.pos, Append(args, a.type))

\* fn parse(bytes: &[u8], pos: &mut usize) -> Self      (pos counts from 0)
parse(bytes, pos) ==
    IF pos >= Len(bytes) THEN Panic
    ELSE LET c == bytes[pos + 1]
         IN  CASE c \in DOMAIN PrimitiveOf -> Parsed(PrimitiveOf[c], pos + 1)
               [] c = "L" ->
                    LET start == pos + 1
                        end == scan_name(bytes, start)
                    IN  IF ~ is_some(end) THEN Panic
                        ELSE Parsed(Object(SubSeq(bytes, start + 1, unwrap(end))),
                                    unwrap(end) + 1)
               [] c = "[" ->
                    LET elem == parse(bytes, pos + 1)
                    IN  IF elem.panic THEN Panic
                        ELSE Parsed(Array(elem.type), elem.pos)
               [] c = "(" ->
                    LET a == parse_arguments(bytes, pos + 1, <<>>)
                    IN  IF a.panic THEN Panic
                        ELSE LET r == parse(bytes, a.pos + 1)
                             IN  IF r.panic THEN Panic
                                 ELSE Parsed(Method(a.args, r.type), r.pos)
               [] OTHER -> Panic

\* pub fn get_type(descriptor: &str) -> Self
get_type(d) ==
    LET t == parse(d, 0)
    IN  IF t.panic THEN Panic ELSE Returned(t.type)

\* get_method_type as it would be without its match
get_method_type_unchecked(d) == get_type(d)

\* pub fn get_method_type(descriptor: &str) -> Self
get_method_type(d) ==
    LET t == get_type(d)
    IN  IF t.panic THEN Panic
        ELSE IF t.value.tag = "Method" THEN t
        ELSE Panic

\* the letter of each primitive in get_descriptor
LetterOf ==
    [t \in {"Void", "Boolean", "Char", "Byte", "Short", "Int", "Float", "Long", "Double"} |->
        CASE t = "Void" -> "V"
          [] t = "Boolean" -> "Z"
          [] t = "Char" -> "C"
          [] t = "Byte" -> "B"
          [] t = "Short" -> "S"
          [] t = "Int" -> "I"
          [] t = "Float" -> "F"
          [] t = "Long" -> "J"
          [] t = "Double" -> "D"]

RECURSIVE get_descriptor_unterminated(_)
RECURSIVE push_descriptors_unterminated(_, _)
RECURSIVE get_descriptor(_)
RECURSIVE push_descriptors(_, _)

\* get_descriptor as it would be if it left out the ';' of an object type
push_descriptors_unterminated(desc, argument_types) ==
    IF argument_types = <<>> THEN desc
    ELSE push_descriptors_unterminated(
             desc \o get_descriptor_unterminated(Head(argument_types)),
             Tail(argument_types))

get_descriptor_unterminated(t) ==
    CASE t.tag \in DOMAIN LetterOf -> <<LetterOf[t.tag]>>
      [] t.tag = "Array" -> <<"[">> \o get_descriptor_unterminated(t.elem)
      [] t.tag = "Object" -> <<"L">> \o t.name
      [] t.tag = "Method" ->
            push_descriptors_unterminated(<<"(">>, t.argument_types) \o <<")">>
                \o get_descriptor_unterminated(t.return_type)

\* for arg in argument_types { desc.push_str(&arg.get_descriptor()); }
push_descriptors(desc, argument_types) ==
    IF argument_types = <<>> THEN desc
    ELSE push_descriptors(desc \o get_descriptor(Head(argument_types)),
                          Tail(argument_types))

\* pub fn get_descriptor(&self) -> String
get_descriptor(t) ==
    CASE t.tag \in DOMAIN LetterOf -> <<LetterOf[t.tag]>>
      [] t.tag = "Array" -> <<"[">> \o get_descriptor(t.elem)
      [] t.tag = "Object" -> <<"L">> \o t.name \o <<";">>
      [] t.tag = "Method" ->
            push_descriptors(<<"(">>, t.argument_types) \o <<")">>
                \o get_descriptor(t.return_type)

\* the keyword of each primitive in get_class_name
KeywordOf ==
    [t \in DOMAIN LetterOf |->
        CASE t = "Void" -> <<"v", "o", "i", "d">>
          [] t = "Boolean" -> <<"b", "o", "o", "l", "e", "a", "n">>
          [] t = "Char" -> <<"c", "h", "a", "r">>
          [] t = "Byte" -> <<"b", "y", "t", "e">>
          [] t = "Short" -> <<"s", "h", "o", "r", "t">>
          [] t = "Int" -> <<"i", "n", "t">>
          [] t = "Float" -> <<"f", "l", "o", "a", "t">>
          [] t = "Long" -> <<"l", "o", "n", "g">>
          [] t = "Double" -> <<"d", "o", "u", "b", "l", "e">>]

\* name.replace('/', ".")
replace(name, from, to) ==
    [i \in 1..Len(name) |-> IF name[i] = from THEN to ELSE name[i]]

RECURSIVE get_class_name_internal(_)
\* get_class_name as it would be if it kept the internal name of an object
get_class_name_internal(t) ==
    CASE t.tag \in DOMAIN KeywordOf -> Returned(KeywordOf[t.tag])
      [] t.tag = "Array" ->
            LET e == get_class_name_internal(t.elem)
            IN  IF e.panic THEN Panic ELSE Returned(e.value \o <<"[", "]">>)
      [] t.tag = "Object" -> Returned(t.name)
      [] t.tag = "Method" -> Panic

RECURSIVE get_class_name(_)
\* pub fn get_class_name(&self) -> String
get_class_name(t) ==
    CASE t.tag \in DOMAIN KeywordOf -> Returned(KeywordOf[t.tag])
      [] t.tag = "Array" ->
            LET e == get_class_name(t.elem)
            IN  IF e.panic THEN Panic ELSE Returned(e.value \o <<"[", "]">>)
      [] t.tag = "Object" -> Returned(replace(t.name, "/", "."))
      [] t.tag = "Method" -> Panic

RECURSIVE get_dimensions(_)
\* pub fn get_dimensions(&self) -> usize
get_dimensions(t) ==
    IF t.tag = "Array" THEN 1 + get_dimensions(t.elem) ELSE 0

RECURSIVE get_size_of_element(_)
\* get_size as it would be if an array had the size of its element
get_size_of_element(t) ==
    CASE t.tag = "Void" -> 0
      [] t.tag \in {"Long", "Double"} -> 2
      [] t.tag = "Array" -> get_size_of_element(t.elem)
      [] OTHER -> 1

\* pub fn get_size(&self) -> usize
get_size(t) ==
    CASE t.tag = "Void" -> 0
      [] t.tag \in {"Long", "Double"} -> 2
      [] OTHER -> 1

----------------------------------------------------------------------------
(* The descriptors explored: the descriptors of all types up to MaxDim array *)
(* levels and MaxArgs arguments, the same with one byte replaced, one byte   *)
(* added at the end or the end cut off, and the descriptor                   *)
(* "([[IJ)Ljava/lang/String;".                                               *)

MaxDim == 2
MaxArgs == 2

Primitives == { PrimitiveOf[c] : c \in DOMAIN PrimitiveOf }
Names == { <<"a">>, <<"a", "/", "b">> }

RECURSIVE Arrays(_, _)
Arrays(S, d) == IF d = 0 THEN S ELSE S \cup { Array(t) : t \in Arrays(S, d - 1) }

RECURSIVE SeqsUpTo(_, _)
SeqsUpTo(S, n) ==
    IF n = 0 THEN { <<>> }
    ELSE LET shorter == SeqsUpTo(S, n - 1)
         IN  shorter \cup { Append(q, x) : q \in shorter, x \in S }

FieldTypes == Arrays(Primitives \cup { Object(n) : n \in Names }, MaxDim)
ArgumentTypes == Arrays({INT_TYPE}, MaxDim) \cup {LONG_TYPE, Object(<<"a", "/", "b">>)}
ReturnTypes == {VOID_TYPE, INT_TYPE, Object(<<"a">>)}
MethodTypes == { Method(a, r) : a \in SeqsUpTo(ArgumentTypes, MaxArgs), r \in ReturnTypes }
\* types only the parser builds: a method as array element or as argument
NestedTypes ==
    LET m == Method(<<INT_TYPE>>, VOID_TYPE)
    IN  (Arrays({m}, MaxDim) \ {m}) \cup {Method(<<m, LONG_TYPE>>, INT_TYPE)}

ExampleName ==
    <<"j", "a", "v", "a", "/", "l", "a", "n", "g", "/", "S", "t", "r", "i", "n", "g">>
ExampleDescriptor == <<"(", "[", "[", "I", "J", ")", "L">> \o ExampleName \o <<";">>
ExampleType == Method(<<Array(Array(INT_TYPE)), LONG_TYPE>>, Object(ExampleName))

Bytes == {"I", "L", ";", "[", "(", ")", "x"}

WellFormed ==
    { get_descriptor(t) : t \in FieldTypes \cup MethodTypes \cup NestedTypes }
        \cup {ExampleDescriptor}

Damage(d) ==
    { [d EXCEPT ![i] = b] : i \in 1..Len(d), b \in Bytes }
        \cup { Append(d, b) : b \in Bytes }
        \cup { SubSeq(d, 1, n) : n \in 0..(Len(d) - 1) }

Descriptors == WellFormed \cup UNION { Damage(d) : d \in WellFormed }

----------------------------------------------------------------------------
(* Calls on Type: a descriptor is given, get_type or get_method_type turns   *)
(* it into a Type or aborts, and the Type is then queried.                   *)

TypeInit ==
    /\ NoBuilder
    /\ at = "input"
    /\ input \in Descriptors
    /\ ty = VOID_TYPE
    /\ ret = NoReturn
    /\ NoParse

\* a call from a descriptor: r is what it returns
FromDescriptor(op, r) ==
    /\ at = "input"
    /\ ret' = [op |-> op, panic |-> r.panic, value |-> IF r.panic THEN <<>> ELSE r.value]
    /\ at' = IF r.panic THEN "aborted" ELSE "typed"
    /\ ty' = IF r.panic THEN ty ELSE r.value
    /\ UNCHANGED input
    /\ UNCHANGED pvars
    /\ UNCHANGED bvars

\* a call on the Type: r is what it returns
Query(op, r) ==
    /\ at = "typed"
    /\ ret' = [op |-> op, panic |-> r.panic, value |-> IF r.panic THEN <<>> ELSE r.value]
    /\ at' = IF r.panic THEN "aborted" ELSE "typed"
    /\ UNCHANGED <<input, ty>>
    /\ UNCHANGED pvars
    /\ UNCHANGED bvars

GetType == FromDescriptor("get_type", get_type(input))
GetMethodType == FromDescriptor("get_method_type", get_method_type(input))
GetDescriptor == Query("get_descriptor", Returned(get_descriptor(ty)))
GetClassName == Query("get_class_name", get_class_name(ty))
GetDimensions == Query("get_dimensions", Returned(get_dimensions(ty)))
GetSize == Query("get_size", Returned(get_size(ty)))

TypeNext ==
    \/ GetType
    \/ GetMethodType
    \/ GetDescriptor
    \/ GetClassName
    \/ GetDimensions
    \/ GetSize

SpecType == TypeInit /\ [][TypeNext]_vars

----------------------------------------------------------------------------
(* C12 *)

\* the descriptor grammar: primitive letters, 'L' name ';', '[' type,
\* '(' type* ')' type
RECURSIVE IsFieldDescriptor(_)
IsFieldDescriptor(s) ==
    /\ Len(s) >= 1
    /\ \/ Len(s) = 1 /\ s[1] \in {"V", "Z", "C", "B", "S", "I", "F", "J", "D"}
       \/ /\ Len(s) >= 2
          /\ s[1] = "L"
          /\ s[Len(s)] = ";"
          /\ \A i \in 2..(Len(s) - 1) : s[i] # ";"
       \/ s[1] = "[" /\ IsFieldDescriptor(Tail(s))

RECURSIVE IsFieldDescriptorList(_)
IsFieldDescriptorList(s) ==
    \/ s = <<>>
    \/ \E k \in 1..Len(s) :
           /\ IsFieldDescriptor(SubSeq(s, 1, k))
           /\ IsFieldDescriptorList(SubSeq(s, k + 1, Len(s)))

IsMethodDescriptor(s) ==
    /\ Len(s) >= 3
    /\ s[1] = "("
    /\ \E k \in 2..(Len(s) - 1) :
           /\ s[k] = ")"
           /\ IsFieldDescriptorList(SubSeq(s, 2, k - 1))
           /\ IsFieldDescriptor(SubSeq(s, k + 1, Len(s)))

IsDescriptor(s) == IsFieldDescriptor(s) \/ IsMethodDescriptor(s)

\* C12: descriptor round trip.  get_type succeeds on every descriptor s of
\* the grammar and get_descriptor(get_type(s)) = s; and for every Type t
\* that get_type produced, get_type(get_descriptor(t)) = t.
DescriptorRoundTrip ==
    /\ (ret.op = "get_type" /\ IsDescriptor(input)) => ~ ret.panic
    /\ (ret.op = "get_descriptor") =>
           /\ IsDescriptor(input) => ret.value = input
           /\ get_type(ret.value) = Returned(ty)

\* the descriptor of a two-argument method came back as it was given
DescriptorRoundTripWitness ==
    /\ ret.op = "get_descriptor"
    /\ IsMethodDescriptor(input)
    /\ ty.tag = "Method"
    /\ Len(ty.argument_types) = 2
    /\ ty.return_type.tag = "Object"
    /\ ret.value = input

----------------------------------------------------------------------------
(* C13 *)

\* what follows the first type read from s
AfterType(s) == SubSeq(s, Len(get_descriptor(get_type(s).value)) + 1, Len(s))

\* the types read from s one after the other up to the first ')' between them
RECURSIVE TypesBefore(_)
TypesBefore(s) ==
    IF s = <<>> \/ s[1] = ")" \/ get_type(s).panic THEN <<>>
    ELSE <<get_type(s).value>> \o TypesBefore(AfterType(s))

\* what follows that ')'
RECURSIVE AfterTypes(_)
AfterTypes(s) ==
    IF s = <<>> THEN <<>>
    ELSE IF s[1] = ")" THEN Tail(s)
    ELSE IF get_type(s).panic THEN <<>>
    ELSE AfterTypes(AfterType(s))

\* the number of '[' s starts with
RECURSIVE LeadingBrackets(_)
LeadingBrackets(s) ==
    IF s # <<>> /\ s[1] = "[" THEN 1 + LeadingBrackets(Tail(s)) ELSE 0

RECURSIVE Wrap(_, _)
Wrap(t, k) == IF k = 0 THEN t ELSE Array(Wrap(t, k - 1))

\* the position of the first ';' of s
FirstSemicolon(s) ==
    CHOOSE i \in 1..Len(s) : s[i] = ";" /\ \A j \in 1..(i - 1) : s[j] # ";"

\* C13: parse structure.  On a descriptor that starts with '(' get_type
\* yields a Method whose argument_types are the types between '(' and ')'
\* from left to right and whose return_type is the type after ')'; k leading
\* '[' put exactly k Array levels around the element type; 'L' name ';'
\* yields Object(name), name without the ';'; and "([[IJ)Ljava/lang/String;"
\* yields Method{[Array(Array(Int)), Long], Object("java/lang/String")}.
ParseStructure ==
    (at = "typed") =>
        /\ input[1] = "(" =>
               /\ ty.tag = "Method"
               /\ ty.argument_types = TypesBefore(Tail(input))
               /\ Returned(ty.return_type) = get_type(AfterTypes(Tail(input)))
        /\ input[1] = "[" =>
               LET k == LeadingBrackets(input)
                   e == get_type(SubSeq(input, k + 1, Len(input)))
               IN  /\ ~ e.panic
                   /\ e.value.tag # "Array"
                   /\ ty = Wrap(e.value, k)
        /\ input[1] = "L" =>
               /\ ty = Object(SubSeq(input, 2, FirstSemicolon(input) - 1))
               /\ \A i \in 1..Len(ty.name) : ty.name[i] # ";"
        /\ input = ExampleDescriptor => ty = ExampleType

\* get_type was applied to "([[IJ)Ljava/lang/String;"
ParseStructureWitness ==
    /\ ret.op = "get_type"
    /\ input = ExampleDescriptor
    /\ ty.tag = "Method"
    /\ ty.argument_types[1] = Array(Array(INT_TYPE))
    /\ ty.argument_types[2] = LONG_TYPE

----------------------------------------------------------------------------
(* C14 *)

\* the positions of s outside the names of its 'L' spans, and whether s ends
\* inside a name
RECURSIVE Lex(_, _, _, _)
Lex(s, i, open, outside) ==
    IF i > Len(s) THEN [open |-> open, outside |-> outside]
    ELSE IF open THEN Lex(s, i + 1, s[i] # ";", outside)
    ELSE Lex(s, i + 1, s[i] = "L", outside \cup {i})

GrammarBytes == {"V", "Z", "C", "B", "S", "I", "F", "J", "D", "L", "[", "(", ")"}

\* s contains a byte matching no grammar rule
HasStrayByte(s) ==
    \E i \in Lex(s, 1, FALSE, {}).outside : s[i] \notin GrammarBytes
\* s has an 'L' span with no closing ';'
HasOpenName(s) == Lex(s, 1, FALSE, {}).open
\* s has an argument list with no closing ')'
HasOpenArguments(s) ==
    LET outside == Lex(s, 1, FALSE, {}).outside
    IN  \E i \in outside :
            /\ s[i] = "("
            /\ ~ \E j \in outside : j > i /\ s[j] = ")"

\* C14: malformed descriptors fail.  get_type(s) aborts for every s that is
\* empty, contains a byte matching no grammar rule, has an 'L' span with no
\* closing ';' or has an argument list with no closing ')'.
MalformedFails ==
    (/\ ret.op = "get_type"
     /\ \/ input = <<>>
        \/ HasStrayByte(input)
        \/ HasOpenName(input)
        \/ HasOpenArguments(input))
        => ret.panic

----------------------------------------------------------------------------
(* C15 *)

----------------------------------------------------------------------------
(* C16 *)

\* C16: get_size returns 2 exactly for Long and Double, 0 exactly for Void
\* and 1 for every other Type (the other primitives, every Array whatever
\* its element, every Object, every Method).
SizeByKind ==
    (ret.op = "get_size") =>
        /\ ret.value \in {0, 1, 2}
        /\ ret.value = 2 <=> ty \in {LONG_TYPE, DOUBLE_TYPE}
        /\ ret.value = 0 <=> ty = VOID_TYPE

\* get_size answered 1 for an array of long
SizeByKindWitness ==
    /\ ret.op = "get_size"
    /\ ty = Array(LONG_TYPE)
    /\ ret.value = 1

----------------------------------------------------------------------------
(* C17 *)

\* the element under all the Array levels of t
RECURSIVE Innermost(_)
Innermost(t) == IF t.tag = "Array" THEN Innermost(t.elem) ELSE t

RECURSIVE Suffixes(_)
Suffixes(k) == IF k = 0 THEN <<>> ELSE <<"[", "]">> \o Suffixes(k - 1)

Keyword(tag) ==
    CASE tag = "Void" -> <<"v", "o", "i", "d">>
      [] tag = "Boolean" -> <<"b", "o", "o", "l", "e", "a", "n">>
      [] tag = "Char" -> <<"c", "h", "a", "r">>
      [] tag = "Byte" -> <<"b", "y", "t", "e">>
      [] tag = "Short" -> <<"s", "h", "o", "r", "t">>
      [] tag = "Int" -> <<"i", "n", "t">>
      [] tag = "Float" -> <<"f", "l", "o", "a", "t">>
      [] tag = "Long" -> <<"l", "o", "n", "g">>
      [] tag = "Double" -> <<"d", "o", "u", "b", "l", "e">>

\* r is the name with every '/' replaced by '.'
Dotted(r, name) ==
    /\ Len(r) = Len(name)
    /\ \A i \in 1..Len(name) : r[i] = IF name[i] = "/" THEN "." ELSE name[i]

\* C17: get_class_name renders the keyword of a primitive, the internal name
\* with every '/' replaced by '.' for an Object, and for an Array of
\* get_dimensions() = k the class name of the innermost element followed by
\* exactly k "[]"; it aborts for every Method and for every Array whose
\* innermost element is a Method.
ClassNameRendering ==
    (ret.op = "get_class_name") =>
        LET k == get_dimensions(ty)
            e == Innermost(ty)
        IN  IF e.tag = "Method" THEN ret.panic
            ELSE /\ ~ ret.panic
                 /\ Len(ret.value) >= 2 * k
                 /\ SubSeq(ret.value, Len(ret.value) - 2 * k + 1, Len(ret.value)) = Suffixes(k)
                 /\ LET base == SubSeq(ret.value, 1, Len(ret.value) - 2 * k)
                    IN  IF e.tag = "Object" THEN Dotted(base, e.name)
                        ELSE base = Keyword(e.tag)

\* the class name of a two-dimensional array of a/b was rendered
ClassNameRenderingWitness ==
    /\ ret.op = "get_class_name"
    /\ ty = Array(Array(Object(<<"a", "/", "b">>)))
    /\ ret.value = <<"a", ".", "b", "[", "]", "[", "]">>

----------------------------------------------------------------------------
(* Member references on seeded builders: a builder made by new(), or adopted *)
(* from a pool that holds every entry of field_ref("a", "a", "a") twice, as  *)
(* it is or with one slot damaged, takes up to MaxRefCalls calls of          *)
(* field_ref, method_ref and interface_method_ref.                           *)

MaxRefCalls == 3

\* entry e with its index fields moved up by k
Shift(e, k) == [f \in DOMAIN e |-> IF f \in IndexFields THEN e[f] + k ELSE e[f]]

\* pool p followed by a second copy of its slots 1.., addressing one another
Doubled(p) == p \o [i \in 1..(Len(p) - 1) |-> Shift(p[i + 1], Len(p) - 1)]

RefPools ==
    LET q == Doubled(into_pool(field_ref(Fresh, "a", "a", "a").self))
    IN  {q} \cup UNION { { [q EXCEPT ![k] = e] : e \in Damaged(q[k], Len(q)) }
                         : k \in 1..Len(q) }

RefFieldRef(o, n, d) ==
    Insert("field_ref", <<o, n, d>>, field_ref(Self, o, n, d), MaxRefCalls)
RefMethodRef(o, n, d) ==
    Insert("method_ref", <<o, n, d>>, method_ref(Self, o, n, d), MaxRefCalls)
RefInterfaceMethodRef(o, n, d) ==
    Insert("interface_method_ref", <<o, n, d>>,
           interface_method_ref(Self, o, n, d), MaxRefCalls)

RefNext ==
    \/ New
    \/ \E p \in RefPools : FromPool(p)
    \/ \E t \in Triples : RefFieldRef(t[1], t[2], t[3])
    \/ \E t \in Triples : RefMethodRef(t[1], t[2], t[3])
    \/ \E t \in Triples : RefInterfaceMethodRef(t[1], t[2], t[3])

SpecRefs == Init /\ [][RefNext]_vars

----------------------------------------------------------------------------
(* C21 *)

RefOps == {"field_ref", "method_ref", "interface_method_ref"}

\* the entries at indices x and y have the same class_index and the same
\* name_and_type_index
SameMember(x, y) ==
    /\ builder.cp[x + 1].class_index = builder.cp[y + 1].class_index
    /\ builder.cp[x + 1].name_and_type_index = builder.cp[y + 1].name_and_type_index

\* C21 as stated: field_ref, method_ref and interface_method_ref with the
\* same triple return three pairwise distinct indices addressing a Fieldref,
\* a Methodref and an InterfaceMethodref, and the three entries carry the
\* same class_index and the same name_and_type_index.
SeparateRefMaps ==
    (pc = "built") =>
        \A t \in Triples :
            \A f \in Earlier("field_ref", t) :
            \A m \in Earlier("method_ref", t) :
            \A i \in Earlier("interface_method_ref", t) :
                /\ f # m /\ f # i /\ m # i
                /\ HasTag(builder.cp, f, "Fieldref")
                /\ HasTag(builder.cp, m, "Methodref")
                /\ HasTag(builder.cp, i, "InterfaceMethodref")
                /\ SameMember(f, m) /\ SameMember(m, i)

\* C21, amended: the indices the three methods return for the same triple
\* are pairwise distinct and address a Fieldref, a Methodref and an
\* InterfaceMethodref, in every builder; in a builder made by new() the
\* entries moreover carry the same class_index and name_and_type_index.
SeparateRefMapsSameMemberFromNew ==
    (pc = "built") =>
        \A t \in Triples : \A op1 \in RefOps : \A op2 \in RefOps \ {op1} :
            \A x \in Earlier(op1, t) : \A y \in Earlier(op2, t) :
                /\ x # y
                /\ HasTag(builder.cp, x, RefTag[op1])
                /\ HasTag(builder.cp, y, RefTag[op2])
                /\ (ctor = "new") => SameMember(x, y)

\* the three methods were called with the same triple on a builder from new()
SeparateRefMapsWitness ==
    /\ pc = "built"
    /\ ctor = "new"
    /\ \E t \in Triples : \A op \in RefOps : Earlier(op, t) # {}

----------------------------------------------------------------------------
(* The adoption round trip: a builder b made by new() takes up to            *)
(* MaxRoundTripCalls insertion calls and is consumed by into_pool; from_pool *)
(* of the returned vector makes the builder b2, on which up to MaxRepeats    *)
(* of the deduplicated calls made on b are made again.                       *)

MaxRoundTripCalls == 2
MaxRepeats == 1

\* the arguments tried for each insertion method
Arguments ==
    [utf8 |-> { <<v>> : v \in Strings },
     class |-> { <<v>> : v \in Strings },
     string |-> { <<v>> : v \in Strings },
     integer |-> { <<v>> : v \in Numbers },
     float |-> { <<v>> : v \in Numbers },
     long |-> { <<v>> : v \in Numbers },
     double |-> { <<v>> : v \in Numbers },
     name_and_type |-> Pairs,
     field_ref |-> Triples,
     method_ref |-> Triples,
     interface_method_ref |-> Triples,
     method_type |-> { <<v>> : v \in Strings },
     method_handle |-> { <<h.reference_kind, h.owner, h.name, h.descriptor, h.is_interface>>
                         : h \in Handles },
     invoke_dynamic |-> { <<b, "a", "b">> : b \in BsmIndices }]

\* the call of insertion method op with arguments args
Apply(self, op, args) ==
    CASE op = "utf8" -> utf8(self, args[1])
      [] op = "class" -> class(self, args[1])
      [] op = "string" -> string(self, args[1])
      [] op = "integer" -> integer(self, args[1])
      [] op = "float" -> float(self, args[1])
      [] op = "long" -> long(self, args[1])
      [] op = "double" -> double(self, args[1])
      [] op = "name_and_type" -> name_and_type(self, args[1], args[2])
      [] op = "field_ref" -> field_ref(self, args[1], args[2], args[3])
      [] op = "method_ref" -> method_ref(self, args[1], args[2], args[3])
      [] op = "interface_method_ref" ->
            interface_method_ref(self, args[1], args[2], args[3])
      [] op = "method_type" -> method_type(self, args[1])
      [] op = "method_handle" ->
            method_handle(self, [reference_kind |-> args[1], owner |-> args[2],
                                 name |-> args[3], descriptor |-> args[4],
                                 is_interface |-> args[5]])
      [] op = "invoke_dynamic" -> invoke_dynamic(self, args[1], args[2], args[3])

\* the calls tried: on b every insertion call, on b2 the deduplicated
\* calls that were made on b
RoundTripArguments(op) ==
    IF ctor = "new" THEN Arguments[op]
    ELSE IF op \in DedupOps THEN { c[1] : c \in calls[op] }
    ELSE {}

RoundTripLimit == IF ctor = "new" THEN MaxRoundTripCalls ELSE MaxRepeats

\* an insertion call on b, or a call made on b made again on b2
RoundTripInsert ==
    \E op \in DOMAIN Arguments : \E args \in RoundTripArguments(op) :
        Insert(op, args, Apply(Self, op, args), RoundTripLimit)

\* b2 = from_pool(b.into_pool())
Readopt ==
    /\ pc = "consumed"
    /\ ctor = "new"
    /\ pc' = "built"
    /\ ctor' = "from_pool"
    /\ pool' = out
    /\ builder' = from_pool(out)
    /\ pushed' = <<>>
    /\ ncalls' = 0
    /\ call' = NoCall
    /\ UNCHANGED <<calls, out>>
    /\ UNCHANGED tvars

RoundTripNext ==
    \/ New
    \/ RoundTripInsert
    \/ IntoPool
    \/ Readopt

SpecRoundTrip == Init /\ [][RoundTripNext]_vars

----------------------------------------------------------------------------
(* C22 *)

\* C22: adoption round trip.  For a builder b reached from new() by insertion
\* calls, b2 = from_pool(b.into_pool()) answers every deduplicated call that
\* was made on b with the index b returned, without growing its pool.
RoundTripPreservesDedup ==
    (ctor = "from_pool" /\ Inserting /\ call.op \in DedupOps) =>
        /\ call.earlier = {call.index}
        /\ builder.cp = call.pre

----------------------------------------------------------------------------
(* C23 *)

\* C23: distinct constants get distinct indices.  In a builder reached from
\* new(), two insertion calls (nested ones included) that differ in the
\* method or in an argument returned different indices.
DistinctConstantsDistinctIndices ==
    (ctor = "new") =>
        \A op1 \in InsertionOps : \A op2 \in InsertionOps :
            \A c1 \in calls[op1] : \A c2 \in calls[op2] :
                (op1 # op2 \/ c1[1] # c2[1]) => c1[2] # c2[2]

\* invoke_dynamic was called with bootstrap indices 0 and 1 on the same name
\* and descriptor
DistinctConstantsWitness ==
    /\ ctor = "new"
    /\ pc = "built"
    /\ \E c1 \in calls["invoke_dynamic"] : \E c2 \in calls["invoke_dynamic"] :
           c1[1][1] # c2[1][1] /\ c1[1][2] = c2[1][2] /\ c1[1][3] = c2[1][3]
    /\ calls["name_and_type"] # {}

----------------------------------------------------------------------------
(* C24 *)

\* the adopted entry at index i resolves to the constant call op(args) asks
\* for (the identity from_pool registers it under)
ResolvesTo(op, args, i) ==
    IF op = "method_handle"
    THEN /\ HasTag(pool, i, "MethodHandle")
         /\ pool[i + 1].reference_kind = args[1]
         /\ \E t \in {"Fieldref", "Methodref", "InterfaceMethodref"} :
                /\ IsRef(pool, pool[i + 1].reference_index, t, args[2], args[3], args[4])
                /\ args[5] = (t = "InterfaceMethodref")
    ELSE AdoptedAnswer(op, args, i)

\* the adopted indices that resolve to the constant call op(args) asks for
Occurrences(op, args) == { i \in 0..(Len(pool) - 1) : ResolvesTo(op, args, i) }

\* C24: first occurrence wins on adoption.  When the pool given to from_pool
\* holds one or several entries that resolve to the constant a deduplicated
\* call asks for, the call returns the lowest of their indices, whether the
\* entries' dependencies sit at lower or at higher indices.
FirstOccurrenceWins ==
    (ctor = "from_pool" /\ pool # <<>>) =>
        \A op \in DedupOps : \A c \in calls[op] :
            LET occ == Occurrences(op, c[1])
            IN  occ # {} => (c[2] \in occ /\ \A i \in occ : c[2] <= i)

\* field_ref returned the lower of two adopted Fieldref entries of its
\* triple, one whose Class sits at a higher index than the entry itself
FirstOccurrenceWinsWitness ==
    /\ ctor = "from_pool"
    /\ Inserting
    /\ call.op = "field_ref"
    /\ call.index < Len(pool)
    /\ pool[call.index + 1].class_index > call.index
    /\ \E i \in Occurrences("field_ref", call.args) : i > call.index
    /\ \E c \in calls["class"] : \E i \in Occurrences("class", c[1]) : i > c[2]

----------------------------------------------------------------------------------
(* The 16-bit ceiling: a builder adopted from a pool of 2^16 slots, give or  *)
(* take CeilingMargin, takes up to MaxCeilingCalls insertion calls.  The     *)
(* pool holds Unusable, Integer entries and, in its last slot, Utf8("b").    *)
(* All these pools start with the same FillerLen slots, Filler, and no call  *)
(* changes a slot once it is there: the state keeps pool, builder.cp and     *)
(* call.pre without that prefix, and every action puts it back before it     *)
(* applies from_pool or the insertion method.                                *)

CeilingMargin == 2
MaxCeilingCalls == 2

FillerLen == IndexLimit - CeilingMargin - 1

Filler ==
    SubSeq([i \in 1..FillerLen |-> IF i = 1 THEN Unusable ELSE Integer(5)],
           1, FillerLen)

LargePool(n) ==
    Filler \o SubSeq([i \in 1..(n - FillerLen) |->
                          IF i = n - FillerLen THEN Utf8("b") ELSE Integer(5)],
                     1, n - FillerLen)

LargePools ==
    { LargePool(n) : n \in (IndexLimit - CeilingMargin)..(IndexLimit + CeilingMargin) }

\* a pool without its first FillerLen slots, and with them again
Beyond(cp) == SubSeq(cp, FillerLen + 1, Len(cp))
Whole(tail) == Filler \o tail

CeilingSelf == with_history([builder EXCEPT !.cp = Whole(builder.cp)], pushed, calls)

CeilingFromPool(p) ==
    /\ pc = "start"
    /\ pc' = "built"
    /\ ctor' = "from_pool"
    /\ pool' = Beyond(p)
    /\ builder' = [from_pool(p) EXCEPT !.cp = Beyond(@)]
    /\ UNCHANGED <<pushed, calls, call, ncalls, out>>
    /\ UNCHANGED tvars

CeilingInsert(op, args, r) ==
    /\ pc = "built"
    /\ ncalls < MaxCeilingCalls
    /\ ncalls' = ncalls + 1
    /\ builder' = [fields(r.self) EXCEPT !.cp = Beyond(@)]
    /\ pushed' = r.self.pushed
    /\ calls' = r.self.calls
    /\ call' = [op |-> op, args |-> args, index |-> r.index, pre |-> builder.cp,
                earlier |-> Earlier(op, args)]
    /\ UNCHANGED <<pc, ctor, pool, out>>
    /\ UNCHANGED tvars

CeilingUtf8(value) == CeilingInsert("utf8", <<value>>, utf8(CeilingSelf, value))
CeilingClass(name) == CeilingInsert("class", <<name>>, class(CeilingSelf, name))
CeilingInteger(value) ==
    CeilingInsert("integer", <<value>>, integer(CeilingSelf, value))
CeilingLong(value) == CeilingInsert("long", <<value>>, long(CeilingSelf, value))

CeilingNext ==
    \/ \E p \in LargePools : CeilingFromPool(p)
    \/ \E v \in Strings : CeilingUtf8(v)
    \/ \E v \in Strings : CeilingClass(v)
    \/ \E v \in Numbers : CeilingInteger(v)
    \/ \E v \in Numbers : CeilingLong(v)

SpecCeiling == Init /\ [][CeilingNext]_vars

----------------------------------------------------------------------------
(* C25 *)

\* the number of slots of the builder's pool, and of the pool the last call
\* found
Slots == FillerLen + Len(builder.cp)
SlotsBefore == FillerLen + Len(call.pre)

\* the position of the entry the last call appended for itself
OwnPosition == IF call.op \in {"long", "double"} THEN Slots - 2 ELSE Slots - 1

\* the entry at index i of the builder's pool
Slot(i) == IF i < FillerLen THEN Filler[i + 1] ELSE builder.cp[i - FillerLen + 1]

\* C25: unchecked 16-bit ceiling.  An insertion that appends its entry at
\* position p returns p mod 2^16: the position itself while the pool has at
\* most 65536 slots, and from position 65536 on an index below the pool the
\* call found, which does not address the entry just appended.  An adopted
\* entry is registered the same way, under its position mod 2^16.
UncheckedCeiling ==
    /\ Appended =>
           /\ call.index = OwnPosition % IndexLimit
           /\ (Slots <= IndexLimit) => call.index = OwnPosition
           /\ (OwnPosition >= IndexLimit) =>
                  /\ call.index # OwnPosition
                  /\ call.index < SlotsBefore
    /\ (Inserting /\ call.op = "utf8" /\ call.args = <<"b">> /\ ncalls = 1) =>
           /\ ~ Appended
           /\ call.index = (FillerLen + Len(pool) - 1) % IndexLimit

\* utf8 appended its entry at position 65536 and returned 0, the index of
\* the Unusable slot
UncheckedCeilingWitness ==
    /\ Appended
    /\ call.op = "utf8"
    /\ OwnPosition = IndexLimit
    /\ call.index = 0
    /\ Slot(call.index) = Unusable
    /\ Slot(OwnPosition) = Utf8("a")

----------------------------------------------------------------------------
(* parse, statement by statement.  get_type sets the cursor to 0 and calls   *)
(* parse; a step is one match arm up to its next loop test or call of parse, *)
(* one iteration of a while loop, or a panic.  A frame stands for a call of  *)
(* parse that waits for a nested call ("array": line 261, "argument": line   *)
(* 268, "return": line 271) or runs its name loop ("name": line 250).        *)

\* the cursor as it would be if *pos += 1 did not move it
advance_stalled(pos) == pos

\* *pos += 1
advance(pos) == pos + 1

ParseInit ==
    /\ NoBuilder
    /\ at = "parse"
    /\ input \in Descriptors
    /\ ty = VOID_TYPE
    /\ ret = NoReturn
    /\ NoParse

Running == at \in {"parse", "name", "arguments"}
Finished == at \in {"typed", "aborted"}

InBounds == cursor < Len(input)
Byte == input[cursor + 1]

Caller == frames[Len(frames)]
Callers == SubSeq(frames, 1, Len(frames) - 1)

\* where a call of parse that returns v hands it to: the array arm wraps it
\* and returns in turn, the argument loop pushes it and tests again, the
\* return-type call builds the method and returns in turn, and get_type
\* returns it
RECURSIVE return_to(_, _)
return_to(waiting, v) ==
    IF waiting = <<>> THEN [at |-> "typed", frames |-> <<>>, type |-> v]
    ELSE LET top == waiting[Len(waiting)]
             rest == SubSeq(waiting, 1, Len(waiting) - 1)
         IN  CASE top.fn = "array" -> return_to(rest, Array(v))
               [] top.fn = "argument" ->
                    [at |-> "arguments",
                     frames |-> Append(rest, [top EXCEPT !.args = Append(@, v)]),
                     type |-> v]
               [] top.fn = "return" -> return_to(rest, Method(top.args, v))

\* the cursor moves over the byte it is at
Consume ==
    /\ cursor' = advance(cursor)
    /\ scanned' = Append(scanned, cursor)

\* a call of parse returns v to r = return_to(..., v)
Return(r) ==
    /\ at' = r.at
    /\ frames' = r.frames
    /\ ty' = IF r.at = "typed" THEN r.type ELSE ty
    /\ ret' = IF r.at = "typed"
              THEN [op |-> "get_type", panic |-> FALSE, value |-> r.type]
              ELSE ret

\* a panic unwinds every call of parse and get_type
Abort ==
    /\ at' = "aborted"
    /\ frames' = <<>>
    /\ ret' = [op |-> "get_type", panic |-> TRUE, value |-> <<>>]
    /\ UNCHANGED <<ty, cursor, scanned>>

\* parse is entered with the cursor on a byte: called by get_type or by the
\* array arm or for the return type, or called by the argument loop after
\* its test bytes[*pos] != b')'
Entered ==
    /\ InBounds
    /\ \/ at = "parse"
       \/ at = "arguments" /\ Byte # ")"

\* bytes[*pos] with *pos out of bounds, at the head of parse or in the test
\* of either loop
OutOfBounds ==
    /\ Running
    /\ ~ InBounds
    /\ Abort
    /\ UNCHANGED input
    /\ UNCHANGED bvars

\* the arms 'V' .. 'D'
ParsePrimitive ==
    /\ Entered
    /\ Byte \in DOMAIN PrimitiveOf
    /\ Consume
    /\ Return(return_to(frames, PrimitiveOf[Byte]))
    /\ UNCHANGED input
    /\ UNCHANGED bvars

\* the arm 'L' up to the first test of its loop
ParseObject ==
    /\ Entered
    /\ Byte = "L"
    /\ Consume
    /\ frames' = Append(frames, [fn |-> "name", start |-> advance(cursor)])
    /\ at' = "name"
    /\ UNCHANGED <<input, ty, ret>>
    /\ UNCHANGED bvars

\* while bytes[*pos] != b';' { *pos += 1; }: one iteration
SkipNameByte ==
    /\ at = "name"
    /\ InBounds
    /\ Byte # ";"
    /\ Consume
    /\ UNCHANGED <<at, frames, input, ty, ret>>
    /\ UNCHANGED bvars

\* the arm 'L' after its loop: the name, then skip ';'
ParseObjectEnd ==
    /\ at = "name"
    /\ InBounds
    /\ Byte = ";"
    /\ Consume
    /\ Return(return_to(Callers, Object(SubSeq(input, Caller.start + 1, cursor))))
    /\ UNCHANGED input
    /\ UNCHANGED bvars

\* the arm '[' up to its call of parse
ParseArray ==
    /\ Entered
    /\ Byte = "["
    /\ Consume
    /\ frames' = Append(frames, [fn |-> "array"])
    /\ at' = "parse"
    /\ UNCHANGED <<input, ty, ret>>
    /\ UNCHANGED bvars

\* the arm '(' up to the first test of its loop
ParseMethod ==
    /\ Entered
    /\ Byte = "("
    /\ Consume
    /\ frames' = Append(frames, [fn |-> "argument", args |-> <<>>])
    /\ at' = "arguments"
    /\ UNCHANGED <<input, ty, ret>>
    /\ UNCHANGED bvars

\* the arm '(' after its loop: skip ')', then the call for the return type
ParseReturnType ==
    /\ at = "arguments"
    /\ InBounds
    /\ Byte = ")"
    /\ Consume
    /\ frames' = Append(Callers, [fn |-> "return", args |-> Caller.args])
    /\ at' = "parse"
    /\ UNCHANGED <<input, ty, ret>>
    /\ UNCHANGED bvars

\* the arm _ => panic!
InvalidCharacter ==
    /\ Entered
    /\ Byte \notin DOMAIN PrimitiveOf \cup {"L", "[", "("}
    /\ Abort
    /\ UNCHANGED input
    /\ UNCHANGED bvars

ParseNext ==
    \/ OutOfBounds
    \/ ParsePrimitive
    \/ ParseObject
    \/ SkipNameByte
    \/ ParseObjectEnd
    \/ ParseArray
    \/ ParseMethod
    \/ ParseReturnType
    \/ InvalidCharacter

\* a call that was made runs on: nothing else is scheduled inside get_type
SpecParse == ParseInit /\ [][ParseNext]_vars /\ WF_vars(ParseNext)

----------------------------------------------------------------------------
(* C26 *)

\* a step of parse that does not panic moves the cursor forward, and a
\* panic leaves it where it is
CursorAdvances ==
    /\ cursor' >= cursor
    /\ at' # "aborted" => cursor' > cursor

\* every byte before the cursor was moved over once, in order, and no other
ScannedOnce ==
    /\ Len(scanned) = cursor
    /\ \A i \in 1..Len(scanned) : scanned[i] = i - 1
    /\ cursor <= Len(input)

\* what the steps end in is what get_type returns
ParseResult ==
    /\ at = "typed" =>
           /\ ~ parse(input, 0).panic
           /\ ty = parse(input, 0).type
           /\ cursor = parse(input, 0).pos
           /\ Returned(ret.value) = get_type(input)
    /\ at = "aborted" => get_type(input).panic /\ ret.panic

\* C26: parsing terminates.  On every descriptor get_type ends, with a Type
\* or with a panic; every step of parse and every loop iteration that does
\* not panic moves the cursor forward and none moves it back, so each byte
\* is moved over at most once, in order.
ParsingTerminates ==
    /\ <>Finished
    /\ [][CursorAdvances]_vars
    /\ [](ScannedOnce /\ ParseResult)

\* the example descriptor was parsed to its end, through nested calls of
\* parse and both loops
ParsingTerminatesWitness ==
    /\ at = "typed"
    /\ input = ExampleDescriptor
    /\ ty = ExampleType
    /\ cursor = Len(input)
    /\ Len(scanned) = Len(input)

====
